---- MODULE Spec2Model ----
(***************************************************************************)
(* Model of the pay-to-message front end: the payment lifecycle driver of  *)
(* utils/anchorClient.ts (createMessagePayment, approveMessagePayment,     *)
(* rejectMessagePayment) and the mirrored-database operations of           *)
(* utils/messageService.ts (fetchMessages, saveMessage,                    *)
(* updateMessageStatus).                                                   *)
(*                                                                         *)
(* Every operation is an async function; it is modelled as one action per  *)
(* stretch of code between two awaits on a remote service (database or     *)
(* chain node).  Strings are sequences of one-character strings.  The      *)
(* millisecond clock Date.now() is the variable now; it is started at      *)
(* StartTime, a value that has the shape of a real clock reading (at least *)
(* four hexadecimal and three base-36 digits) and fits TLC's integers.     *)
(***************************************************************************)
EXTENDS Integers, Sequences, FiniteSets, TLC

\* ------------------------------------------------------------------ bounds
MaxMessages == 2
MaxProfiles == 4
MaxEscrows == 2
MaxTicks == 1
MaxFaults == 1
StartTime == 1700000000

\* ---------------------------------------------------------------- constants
LAMPORTS_PER_SOL == 1000000000

\* -------------------------------------------------------------- input sets
Procs == {"p1", "p2"}
Wallets == {"A", "B"}
\* the (sender, recipient) pairs of the payments that are created
Pairs == {<<"A", "B">>}
Amounts == {2}
NoBalance == 0 - 1
Balances == {0,
             LAMPORTS_PER_SOL + (LAMPORTS_PER_SOL \div 100),
             2 * LAMPORTS_PER_SOL,
             2 * LAMPORTS_PER_SOL + (LAMPORTS_PER_SOL \div 100) - 1,
             2 * LAMPORTS_PER_SOL + (LAMPORTS_PER_SOL \div 100)}
RandTokens == {<<"3", "e">>, <<"c", "4">>}
TickSteps == {1}
IdSamples == {<<>>, <<"x", "x", "1">>, <<"m", "a", "b">>, <<"m", "a", "b", "c">>}
\* the ways a submission fails in the wallet or on the way to the chain node
RpcErrors == {"insufficient funds", "User rejected", "network"}
SettleErrors == {"User rejected"}

VARIABLES profiles, messages, escrows, now, dbFaults, call

vars == <<profiles, messages, escrows, now, dbFaults, call>>

\* ------------------------------------------------------------ string model
Min(a, b) == IF a < b THEN a ELSE b
Max(a, b) == IF a > b THEN a ELSE b

Digits == <<"0", "1", "2", "3", "4", "5", "6", "7", "8", "9",
            "a", "b", "c", "d", "e", "f", "g", "h", "i", "j",
            "k", "l", "m", "n", "o", "p", "q", "r", "s", "t",
            "u", "v", "w", "x", "y", "z">>

RECURSIVE NumberToString(_, _)
\* Number.prototype.toString(radix) of a non-negative integer
NumberToString(n, radix) ==
    IF n < radix THEN <<Digits[n + 1]>>
    ELSE Append(NumberToString(n \div radix, radix), Digits[(n % radix) + 1])

\* String.prototype.slice(0, k)
SliceHead(s, k) == SubSeq(s, 1, Min(k, Len(s)))

\* String.prototype.slice(-k)
SliceTail(s, k) == SubSeq(s, Max(1, Len(s) - k + 1), Len(s))

\* String.prototype.startsWith(c), c one character
StartsWith(s, c) == Len(s) >= 1 /\ s[1] = c

\* String.prototype.includes(c), c one character
Includes(s, c) == \E i \in 1..Len(s) : s[i] = c

\* ------------------------------------------------------------ data shapes
NoSig == <<>>

\* the signature of the transaction that carried instruction kind on the escrow
\* account at pda; the chain accepts each of them at most once per account
Signature(kind, pda) == <<kind, pda>>

\* crypto.randomUUID() / the database's generated row id: the k-th identifier
\* handed out, in UUID shape (hexadecimal digits and '-')
Uuid(k) == <<Digits[k + 1], "e", "-", "4">>

\* new PublicKey(address)
PublicKey(address) == <<"pk", address>>

\* the local variables of one caller
Idle == [op |-> "none", pc |-> "idle", wallet |-> "", peer |-> "", amount |-> 0,
         messageId |-> <<>>, validMessageId |-> <<>>, status |-> "",
         type |-> "", pda |-> <<>>, tx |-> NoSig, sig |-> NoSig,
         senderId |-> <<>>, recipientId |-> <<>>, rowId |-> <<>>,
         ret |-> "none", err |-> "", mirror |-> "none", list |-> <<>>,
         bal |-> NoBalance, submits |-> 0, reads |-> 0, writes |-> 0,
         had |-> 0, targets |-> {}, was |-> "none", queue |-> <<>>, fails |-> 0]

Off == [Idle EXCEPT !.pc = "off"]

\* ------------------------------------------------------- database queries
\* .from('profiles').select().eq('wallet_address', w)
ProfilesByWallet(w) == SelectSeq(profiles, LAMBDA r : r.wallet_address = w)

\* .from('messages').select().eq('message_id', mid)
MessagesByMessageId(mid) == SelectSeq(messages, LAMBDA r : r.message_id = mid)

\* .from('messages').select().eq('id', id)
MessagesById(id) == SelectSeq(messages, LAMBDA r : r.id = id)

\* .single(): an error unless exactly one row matches, or the call itself fails
SingleError(rows, ok) == ~ok \/ Len(rows) # 1

\* the outcomes of one database call: it answers or, while the service may
\* still fail, it fails
DbOutcomes == IF dbFaults > 0 THEN {TRUE, FALSE} ELSE {TRUE}

\* a failed call uses up one of the failures the behaviour may still show
Fault(ok) == dbFaults' = IF ok THEN dbFaults ELSE dbFaults - 1

\* ---------------------------------------------------------- anchorClient
\* deriveMessageEscrowPDA: the program address found for the seed list
\* ["message-escrow", sender, recipient, messageId]; distinct seed lists give
\* distinct addresses
deriveMessageEscrowPDA(sender, recipient, messageId) ==
    <<"message-escrow", sender, recipient, messageId>>

estimatedFee == LAMPORTS_PER_SOL \div 100

\* checkSufficientBalance with the fee buffer left out of the comparison
checkSufficientBalanceNoFee(walletBalance, requiredAmount) ==
    IF walletBalance = NoBalance THEN FALSE
    ELSE walletBalance >= requiredAmount * LAMPORTS_PER_SOL

\* checkSufficientBalance; walletBalance = NoBalance is getBalance throwing
checkSufficientBalance(walletBalance, requiredAmount) ==
    IF walletBalance = NoBalance THEN FALSE
    ELSE walletBalance >= requiredAmount * LAMPORTS_PER_SOL + estimatedFee

\* `${Date.now().toString(16)}-${Math.random().toString(16).slice(2, 10)}`
GenerateMessageId(t, rand) == NumberToString(t, 16) \o <<"-">> \o rand

\* the seed taken as the whole message id, random token included
ShortMessageIdWhole(messageId) == messageId

\* messageId.slice(0, 4)
ShortMessageId(messageId) == SliceHead(messageId, 4)

\* the catch block of createMessagePayment: the error the caller receives
ClassifyCreateError(msg) ==
    IF msg \in {"insufficient funds", "attempt to debit an account", "Insufficient funds"}
    THEN "Insufficient funds. Please add more SOL"
    ELSE IF msg = "User rejected" THEN "Transaction was rejected by the wallet."
    ELSE msg

Throw(l, e) == [l EXCEPT !.pc = "done", !.ret = "throw", !.err = e]

\* -------------------------------------------------------- messageService
\* the validation of saveMessage with the length test left out
SaveIdInvalidNoLength(messageId) ==
    messageId = <<>> \/ ~StartsWith(messageId, "m")

\* saveMessage: !messageId || !messageId.startsWith('m') || messageId.length < 4
SaveIdInvalid(messageId) ==
    messageId = <<>> \/ ~StartsWith(messageId, "m") \/ Len(messageId) < 4

\* the validation of updateMessageStatus with the length test left out
UpdateIdInvalidNoLength(messageId) == ~StartsWith(messageId, "m")

\* the validation of updateMessageStatus with the test for 'm' left out
UpdateIdInvalidLengthOnly(messageId) == Len(messageId) < 4

\* updateMessageStatus: !messageId.startsWith('m') || messageId.length < 4
UpdateIdInvalid(messageId) == ~StartsWith(messageId, "m") \/ Len(messageId) < 4

\* `m${Date.now().toString(36).slice(-3)}`
RegenerateMessageId(t) == <<"m">> \o SliceTail(NumberToString(t, 36), 3)

\* saveMessage: validate and fix the message id
ValidMessageId(messageId, t) ==
    IF SaveIdInvalid(messageId) THEN RegenerateMessageId(t) ELSE messageId

\* saveMessage up to its first await
SaveEntry(l, t) ==
    [l EXCEPT !.pc = "s_sender", !.validMessageId = ValidMessageId(l.messageId, t)]

\* what the caller of saveMessage / updateMessageStatus does with the result b:
\* the anchorClient operations drop it and return the transaction signature
MirrorReturn(l, b) ==
    [l EXCEPT !.pc = "done", !.ret = "value", !.mirror = IF b THEN "true" ELSE "false"]

\* ------------------------------------------------------------------- Init
InitDb ==
    /\ profiles = <<>>
    /\ messages = <<>>
    /\ escrows = {}
    /\ now = StartTime

\* a single caller, a database service that fails up to MaxFaults calls
InitFaulty ==
    /\ InitDb
    /\ dbFaults = MaxFaults
    /\ call = [p \in Procs |-> IF p = "p1" THEN Idle ELSE Off]

\* a single caller, a database service that answers every call
Init ==
    /\ InitDb
    /\ dbFaults = 0
    /\ call = [p \in Procs |-> IF p = "p1" THEN Idle ELSE Off]

\* ---------------------------------------------------------------- actions
Become(p, l) == call' = [call EXCEPT ![p] = l]

\* time passes
Tick ==
    /\ \E d \in TickSteps :
         /\ now + d <= StartTime + MaxTicks
         /\ now' = now + d
    /\ UNCHANGED <<profiles, messages, escrows, dbFaults, call>>

\* the caller takes the result; its locals are dropped
Return(p) ==
    /\ call[p].pc = "done"
    /\ Become(p, Idle)
    /\ UNCHANGED <<profiles, messages, escrows, now, dbFaults>>

\* createMessagePayment(wallet, recipientAddress, amount, messageContent) is called
CallCreate(p) ==
    /\ call[p].pc = "idle"
    /\ \E sr \in Pairs, a \in Amounts :
         Become(p, [Idle EXCEPT !.op = "create", !.pc = "c_balance",
                                !.wallet = sr[1], !.peer = sr[2], !.amount = a])
    /\ UNCHANGED <<profiles, messages, escrows, now, dbFaults>>

\* createMessagePayment from the balance check to the derived escrow address
CreateCheckBalance(p) ==
    LET l == call[p] IN
    /\ l.pc = "c_balance"
    /\ \E b \in Balances \cup {NoBalance}, rand \in RandTokens :
         LET id == GenerateMessageId(now, rand)
             m == [l EXCEPT !.bal = b] IN
         IF ~checkSufficientBalance(b, l.amount)
         THEN Become(p, Throw(m, ClassifyCreateError("Insufficient funds")))
         ELSE Become(p, [m EXCEPT !.pc = "c_submit", !.messageId = id,
                           !.pda = deriveMessageEscrowPDA(PublicKey(l.wallet),
                                                          PublicKey(l.peer),
                                                          ShortMessageId(id))])
    /\ UNCHANGED <<profiles, messages, escrows, now, dbFaults>>

\* the on-chain createMessagePayment instruction: it initialises the escrow
\* account at the address, which must not exist yet
ChainCreate(pda) ==
    /\ \A e \in escrows : e.pda # pda
    /\ Cardinality(escrows) < MaxEscrows
    /\ escrows' = escrows \cup {[pda |-> pda, status |-> "Pending"]}

\* program.methods.createMessagePayment(...).rpc() and, on success, the call of
\* saveMessage up to its first await
CreateSubmit(p) ==
    LET l == [call[p] EXCEPT !.submits = @ + 1] IN
    /\ call[p].pc = "c_submit"
    /\ \/ /\ ChainCreate(l.pda)
          /\ Become(p, SaveEntry([l EXCEPT !.tx = Signature("create", l.pda),
                                            !.sig = Signature("create", l.pda)], now))
       \/ /\ \E e \in RpcErrors \cup {"already in use"} :
               /\ e = "already in use" => \E x \in escrows : x.pda = l.pda
               /\ Become(p, Throw(l, ClassifyCreateError(e)))
          /\ UNCHANGED escrows
    /\ UNCHANGED <<profiles, messages, now, dbFaults>>

\* saveMessage(...) is called directly, without a transaction signature
CallSave(p) ==
    /\ call[p].pc = "idle"
    /\ \E sr \in Pairs, id \in IdSamples :
         Become(p, SaveEntry([Idle EXCEPT !.op = "save", !.wallet = sr[1],
                                          !.peer = sr[2], !.amount = 2,
                                          !.messageId = id], now))
    /\ UNCHANGED <<profiles, messages, escrows, now, dbFaults>>

\* saveMessage taking the first profile when several carry the wallet address
SaveLookupSenderFirst(p) ==
    LET l == [call[p] EXCEPT !.reads = @ + 1]
        rows == ProfilesByWallet(l.wallet) IN
    /\ call[p].pc = "s_sender"
    /\ \E ok \in DbOutcomes :
         /\ Fault(ok)
         /\ IF ~ok \/ rows = <<>>
            THEN Become(p, [l EXCEPT !.pc = "s_senderInsert"])
            ELSE Become(p, [l EXCEPT !.pc = "s_recipient", !.senderId = rows[1].id])
    /\ UNCHANGED <<profiles, messages, escrows, now>>

\* saveMessage: look the sender profile up
SaveLookupSender(p) ==
    LET l == [call[p] EXCEPT !.reads = @ + 1]
        rows == ProfilesByWallet(l.wallet) IN
    /\ call[p].pc = "s_sender"
    /\ \E ok \in DbOutcomes :
         /\ Fault(ok)
         /\ IF SingleError(rows, ok)
            THEN Become(p, [l EXCEPT !.pc = "s_senderInsert"])
            ELSE Become(p, [l EXCEPT !.pc = "s_recipient", !.senderId = rows[1].id])
    /\ UNCHANGED <<profiles, messages, escrows, now>>

\* .from('profiles').insert({id, wallet_address, username})
InsertProfile(w) ==
    profiles' = Append(profiles, [id |-> Uuid(Len(profiles) + 1), wallet_address |-> w])

\* saveMessage: create the sender profile
SaveInsertSender(p) ==
    LET l == call[p] IN
    /\ l.pc = "s_senderInsert"
    /\ Len(profiles) < MaxProfiles
    /\ \E ok \in DbOutcomes :
         /\ Fault(ok)
         /\ IF ok
            THEN /\ InsertProfile(l.wallet)
                 /\ Become(p, [l EXCEPT !.pc = "s_recipient", !.writes = @ + 1,
                                        !.senderId = Uuid(Len(profiles) + 1)])
            ELSE /\ Become(p, MirrorReturn(l, FALSE))
                 /\ UNCHANGED profiles
    /\ UNCHANGED <<messages, escrows, now>>

\* saveMessage: look the recipient profile up
SaveLookupRecipient(p) ==
    LET l == [call[p] EXCEPT !.reads = @ + 1]
        rows == ProfilesByWallet(l.peer) IN
    /\ call[p].pc = "s_recipient"
    /\ \E ok \in DbOutcomes :
         /\ Fault(ok)
         /\ IF SingleError(rows, ok)
            THEN Become(p, [l EXCEPT !.pc = "s_recipientInsert"])
            ELSE Become(p, [l EXCEPT !.pc = "s_insert", !.recipientId = rows[1].id])
    /\ UNCHANGED <<profiles, messages, escrows, now>>

\* saveMessage removing the sender profile it created when the creation of the
\* recipient profile fails
SaveInsertRecipientRolledBack(p) ==
    LET l == call[p] IN
    /\ l.pc = "s_recipientInsert"
    /\ Len(profiles) < MaxProfiles
    /\ \E ok \in DbOutcomes :
         /\ Fault(ok)
         /\ IF ok
            THEN /\ InsertProfile(l.peer)
                 /\ Become(p, [l EXCEPT !.pc = "s_insert", !.writes = @ + 1,
                                        !.recipientId = Uuid(Len(profiles) + 1)])
            ELSE /\ Become(p, MirrorReturn(l, FALSE))
                 /\ profiles' = IF l.writes > 0
                                THEN SelectSeq(profiles, LAMBDA r : r.id # l.senderId)
                                ELSE profiles
    /\ UNCHANGED <<messages, escrows, now>>

\* saveMessage: create the recipient profile
SaveInsertRecipient(p) ==
    LET l == call[p] IN
    /\ l.pc = "s_recipientInsert"
    /\ Len(profiles) < MaxProfiles
    /\ \E ok \in DbOutcomes :
         /\ Fault(ok)
         /\ IF ok
            THEN /\ InsertProfile(l.peer)
                 /\ Become(p, [l EXCEPT !.pc = "s_insert", !.writes = @ + 1,
                                        !.recipientId = Uuid(Len(profiles) + 1)])
            ELSE /\ Become(p, MirrorReturn(l, FALSE))
                 /\ UNCHANGED profiles
    /\ UNCHANGED <<messages, escrows, now>>

\* the row of saveMessage with the sender's wallet address in place of its profile id
MessageRowWalletAsSender(l) ==
    [id |-> Uuid(Len(messages) + 1), sender_id |-> l.wallet,
     recipient_id |-> l.recipientId, message_id |-> l.validMessageId,
     amount |-> l.amount, status |-> "pending", transaction_signature |-> l.sig,
     created_at |-> now]

\* the row saveMessage inserts; the database assigns its id
MessageRow(l) ==
    [id |-> Uuid(Len(messages) + 1), sender_id |-> l.senderId,
     recipient_id |-> l.recipientId, message_id |-> l.validMessageId,
     amount |-> l.amount, status |-> "pending", transaction_signature |-> l.sig,
     created_at |-> now]

\* saveMessage refusing to insert a message_id that a row already carries
SaveInsertMessageUnique(p) ==
    LET l == call[p] IN
    /\ l.pc = "s_insert"
    /\ Len(messages) < MaxMessages
    /\ IF MessagesByMessageId(l.validMessageId) = <<>>
       THEN /\ messages' = Append(messages, MessageRow(l))
            /\ Become(p, MirrorReturn([l EXCEPT !.writes = @ + 1,
                                         !.rowId = Uuid(Len(messages) + 1)], TRUE))
       ELSE /\ Become(p, MirrorReturn(l, FALSE))
            /\ UNCHANGED messages
    /\ UNCHANGED <<profiles, escrows, now, dbFaults>>

\* saveMessage: insert the message row and return
SaveInsertMessage(p) ==
    LET l == call[p] IN
    /\ l.pc = "s_insert"
    /\ Len(messages) < MaxMessages
    /\ \E ok \in DbOutcomes :
         /\ Fault(ok)
         /\ IF ok
            THEN /\ messages' = Append(messages, MessageRow(l))
                 /\ Become(p, MirrorReturn([l EXCEPT !.writes = @ + 1,
                                              !.rowId = Uuid(Len(messages) + 1)], TRUE))
            ELSE /\ Become(p, MirrorReturn(l, FALSE))
                 /\ UNCHANGED messages
    /\ UNCHANGED <<profiles, escrows, now>>

\* the on-chain approveMessagePayment / rejectMessagePayment instruction: the
\* escrow account at the address must exist and be Pending (InvalidEscrowStatus)
ChainSettle(pda, status) ==
    \E e \in escrows :
      /\ e.pda = pda
      /\ e.status = "Pending"
      /\ escrows' = (escrows \ {e}) \cup {[e EXCEPT !.status = status]}

\* the error of a refused approve / reject instruction
SettleRefused(pda) ==
    IF \E e \in escrows : e.pda = pda THEN "InvalidEscrowStatus"
    ELSE "AccountNotInitialized"

\* the ids passed to updateMessageStatus: those of the mirrored rows, the database
\* ids of the rows, the ids stored in the escrow accounts, and fixed samples
KnownIds ==
    {messages[i].message_id : i \in 1..Len(messages)}
      \cup {messages[i].id : i \in 1..Len(messages)}
      \cup {e.pda[4] : e \in escrows}
      \cup (IdSamples \ {<<>>}) \cup {<<"m", "a", "-", "b">>}

\* bookkeeping for the properties: the database ids of the pending rows an
\* approve / reject call is about, namely the rows that carry the message id it
\* was given and the rows that mirror the escrow account it addresses
Targets(messageId, pda) ==
    {messages[i].id : i \in {j \in 1..Len(messages) :
        /\ messages[j].status = "pending"
        /\ \/ messages[j].message_id = messageId
           \/ messages[j].transaction_signature = Signature("create", pda)}}

\* bookkeeping for the properties: the status of the escrow account at pda
EscrowStatus(pda) ==
    IF \E e \in escrows : e.pda = pda
    THEN (CHOOSE e \in escrows : e.pda = pda).status
    ELSE "none"

\* the message ids passed to approve / reject: those of the mirrored rows, those
\* stored in the escrow accounts, and a well-formed sample
SettleIds ==
    {messages[i].message_id : i \in 1..Len(messages)}
      \cup {e.pda[4] : e \in escrows}
      \cup {<<"m", "a", "b", "c">>}

\* updateMessageStatus up to its first await
UpdateEntry(l) ==
    IF UpdateIdInvalid(l.messageId) THEN MirrorReturn(l, FALSE)
    ELSE [l EXCEPT !.pc = "u_check"]

\* approveMessagePayment deriving the address with the two roles swapped
ApprovePDASwapped(wallet, senderAddress, messageId) ==
    deriveMessageEscrowPDA(PublicKey(wallet), PublicKey(senderAddress),
                           ShortMessageId(messageId))

\* approveMessagePayment: the escrow address it derives
ApprovePDA(wallet, senderAddress, messageId) ==
    deriveMessageEscrowPDA(PublicKey(senderAddress), PublicKey(wallet),
                           ShortMessageId(messageId))

\* rejectMessagePayment: the escrow address it derives
RejectPDA(wallet, senderAddress, messageId) ==
    deriveMessageEscrowPDA(PublicKey(senderAddress), PublicKey(wallet),
                           ShortMessageId(messageId))

\* approveMessagePayment(wallet, senderAddress, messageId) is called
CallApprove(p) ==
    /\ call[p].pc = "idle"
    /\ \E w \in Wallets : \E s \in Wallets \ {w}, id \in SettleIds :
         Become(p, [Idle EXCEPT !.op = "approve", !.pc = "a_submit", !.wallet = w,
                                !.peer = s, !.messageId = id, !.status = "approved",
                                !.pda = ApprovePDA(w, s, id),
                                !.targets = Targets(id, ApprovePDA(w, s, id))])
    /\ UNCHANGED <<profiles, messages, escrows, now, dbFaults>>

\* rejectMessagePayment(wallet, senderAddress, messageId) is called
CallReject(p) ==
    /\ call[p].pc = "idle"
    /\ \E w \in Wallets : \E s \in Wallets \ {w}, id \in SettleIds :
         Become(p, [Idle EXCEPT !.op = "reject", !.pc = "r_submit", !.wallet = w,
                                !.peer = s, !.messageId = id, !.status = "rejected",
                                !.pda = RejectPDA(w, s, id),
                                !.targets = Targets(id, RejectPDA(w, s, id))])
    /\ UNCHANGED <<profiles, messages, escrows, now, dbFaults>>

\* what follows a successful approve / reject submission
AfterSettle(l, tx) == UpdateEntry([l EXCEPT !.tx = tx, !.sig = tx])

\* approveMessagePayment going on to updateMessageStatus after a failed submission
ApproveSubmitSwallowed(p) ==
    LET l == [call[p] EXCEPT !.submits = @ + 1, !.was = EscrowStatus(call[p].pda)] IN
    /\ call[p].pc = "a_submit"
    /\ \/ /\ ChainSettle(l.pda, "Approved")
          /\ Become(p, AfterSettle(l, Signature("approve", l.pda)))
       \/ /\ Become(p, UpdateEntry(l))
          /\ UNCHANGED escrows
    /\ UNCHANGED <<profiles, messages, now, dbFaults>>

\* program.methods.approveMessagePayment().rpc() and, on success, the call of
\* updateMessageStatus(messageId, 'approved', tx) up to its first await
ApproveSubmit(p) ==
    LET l == [call[p] EXCEPT !.submits = @ + 1, !.was = EscrowStatus(call[p].pda)] IN
    /\ call[p].pc = "a_submit"
    /\ \/ /\ ChainSettle(l.pda, "Approved")
          /\ Become(p, AfterSettle(l, Signature("approve", l.pda)))
       \/ /\ \E e \in SettleErrors \cup {SettleRefused(l.pda)} :
               /\ e \in {"InvalidEscrowStatus", "AccountNotInitialized"}
                    => ~\E x \in escrows : x.pda = l.pda /\ x.status = "Pending"
               /\ Become(p, Throw(l, e))
          /\ UNCHANGED escrows
    /\ UNCHANGED <<profiles, messages, now, dbFaults>>

\* rejectMessagePayment going on to updateMessageStatus after a refused submission
RejectSubmitSwallowed(p) ==
    LET l == [call[p] EXCEPT !.submits = @ + 1, !.was = EscrowStatus(call[p].pda)] IN
    /\ call[p].pc = "r_submit"
    /\ \/ /\ ChainSettle(l.pda, "Rejected")
          /\ Become(p, AfterSettle(l, Signature("reject", l.pda)))
       \/ /\ ~\E x \in escrows : x.pda = l.pda /\ x.status = "Pending"
          /\ Become(p, AfterSettle(l, Signature("reject", l.pda)))
          /\ UNCHANGED escrows
    /\ UNCHANGED <<profiles, messages, now, dbFaults>>

\* program.methods.rejectMessagePayment().rpc() and, on success, the call of
\* updateMessageStatus(messageId, 'rejected', tx) up to its first await
RejectSubmit(p) ==
    LET l == [call[p] EXCEPT !.submits = @ + 1, !.was = EscrowStatus(call[p].pda)] IN
    /\ call[p].pc = "r_submit"
    /\ \/ /\ ChainSettle(l.pda, "Rejected")
          /\ Become(p, AfterSettle(l, Signature("reject", l.pda)))
       \/ /\ \E e \in SettleErrors \cup {SettleRefused(l.pda)} :
               /\ e \in {"InvalidEscrowStatus", "AccountNotInitialized"}
                    => ~\E x \in escrows : x.pda = l.pda /\ x.status = "Pending"
               /\ Become(p, Throw(l, e))
          /\ UNCHANGED escrows
    /\ UNCHANGED <<profiles, messages, now, dbFaults>>

\* updateMessageStatus(messageId, status) is called directly, without a signature
CallUpdate(p) ==
    /\ call[p].pc = "idle"
    /\ \E id \in KnownIds, st \in {"pending", "approved", "rejected"} :
         Become(p, UpdateEntry([Idle EXCEPT !.op = "update", !.messageId = id,
                                            !.status = st,
                                            !.had = Len(MessagesByMessageId(id))]))
    /\ UNCHANGED <<profiles, messages, escrows, now, dbFaults>>

\* the existence check passing as soon as some row carries the message_id
UpdateCheckAny(p) ==
    LET l == [call[p] EXCEPT !.reads = @ + 1]
        rows == MessagesByMessageId(l.messageId) IN
    /\ call[p].pc = "u_check"
    /\ IF rows = <<>>
       THEN IF Includes(l.messageId, "-")
            THEN Become(p, [l EXCEPT !.pc = "u_byId"])
            ELSE Become(p, MirrorReturn(l, FALSE))
       ELSE Become(p, [l EXCEPT !.pc = "u_update"])
    /\ UNCHANGED <<profiles, messages, escrows, now, dbFaults>>

\* updateMessageStatus: check that the message exists, by message_id
UpdateCheck(p) ==
    LET l == [call[p] EXCEPT !.reads = @ + 1]
        rows == MessagesByMessageId(l.messageId) IN
    /\ call[p].pc = "u_check"
    /\ \E ok \in DbOutcomes :
         /\ Fault(ok)
         /\ IF SingleError(rows, ok)
            THEN IF Includes(l.messageId, "-")
                 THEN Become(p, [l EXCEPT !.pc = "u_byId"])
                 ELSE Become(p, MirrorReturn(l, FALSE))
            ELSE Become(p, [l EXCEPT !.pc = "u_update"])
    /\ UNCHANGED <<profiles, messages, escrows, now>>

\* bookkeeping for the properties: the status of the first row of a result
StatusOf(rows) == IF rows = <<>> THEN "none" ELSE rows[1].status

\* .update({status, ...(transactionSignature ? {transaction_signature} : {})})
UpdatedRow(r, status, sig) ==
    [r EXCEPT !.status = status,
              !.transaction_signature = IF sig # NoSig THEN sig ELSE @]

\* updateMessageStatus: the fallback for an id that holds '-': look the row up
\* by database id (pc u_byId), then update that row and return (pc u_updateById)
UpdateFallback(p) ==
    LET l == call[p]
        rows == MessagesById(l.messageId) IN
    /\ l.pc \in {"u_byId", "u_updateById"}
    /\ \E ok \in DbOutcomes :
         /\ Fault(ok)
         /\ IF l.pc = "u_byId"
            THEN /\ IF SingleError(rows, ok)
                    THEN Become(p, MirrorReturn([l EXCEPT !.reads = @ + 1], FALSE))
                    ELSE Become(p, [l EXCEPT !.reads = @ + 1, !.pc = "u_updateById",
                                             !.rowId = rows[1].id])
                 /\ UNCHANGED messages
            ELSE IF ok
            THEN /\ messages' = [i \in 1..Len(messages) |->
                                   IF messages[i].id = l.rowId
                                   THEN UpdatedRow(messages[i], l.status, l.sig)
                                   ELSE messages[i]]
                 /\ Become(p, MirrorReturn([l EXCEPT !.writes = @ + 1], TRUE))
            ELSE /\ Become(p, MirrorReturn(l, FALSE))
                 /\ UNCHANGED messages
    /\ UNCHANGED <<profiles, escrows, now>>

\* updateMessageStatus refusing to overwrite a row that is no longer pending
UpdateByMessageIdGuarded(p) ==
    LET l == call[p] IN
    /\ l.pc = "u_update"
    /\ IF StatusOf(MessagesByMessageId(l.messageId)) = "pending"
       THEN /\ messages' = [i \in 1..Len(messages) |->
                              IF messages[i].message_id = l.messageId
                              THEN UpdatedRow(messages[i], l.status, l.sig)
                              ELSE messages[i]]
            /\ Become(p, MirrorReturn([l EXCEPT !.writes = @ + 1,
                                         !.was = IF l.op = "update" THEN "pending" ELSE @],
                                    TRUE))
       ELSE /\ Become(p, MirrorReturn(l, FALSE))
            /\ UNCHANGED messages
    /\ UNCHANGED <<profiles, escrows, now, dbFaults>>

\* updateMessageStatus: update the rows carrying the message_id and return
UpdateByMessageId(p) ==
    LET l == call[p] IN
    /\ l.pc = "u_update"
    /\ \E ok \in DbOutcomes :
         /\ Fault(ok)
         /\ IF ok
            THEN /\ messages' = [i \in 1..Len(messages) |->
                                   IF messages[i].message_id = l.messageId
                                   THEN UpdatedRow(messages[i], l.status, l.sig)
                                   ELSE messages[i]]
                 /\ Become(p, MirrorReturn([l EXCEPT !.writes = @ + 1,
                                              !.was = IF l.op = "update"
                                                      THEN StatusOf(MessagesByMessageId(l.messageId))
                                                      ELSE @], TRUE))
            ELSE /\ Become(p, MirrorReturn(l, FALSE))
                 /\ UNCHANGED messages
    /\ UNCHANGED <<profiles, escrows, now>>

RECURSIVE SortNewestFirst(_)
\* Array.prototype.sort((a, b) => b.created_at - a.created_at): stable, newest first
SortNewestFirst(rows) ==
    IF Len(rows) <= 1 THEN rows
    ELSE LET rest == SortNewestFirst(Tail(rows))
             h == Head(rows)
             before == SelectSeq(rest, LAMBDA r : r.created_at > h.created_at)
             after == SelectSeq(rest, LAMBDA r : r.created_at <= h.created_at)
         IN before \o <<h>> \o after

\* the messages query selecting the received messages whatever the type
MessagesQueryReceived(profileId, type) ==
    SelectSeq(messages, LAMBDA r : r.recipient_id = profileId)

\* fetchMessages: the messages query for the profile, by type
MessagesQuery(profileId, type) ==
    IF type = "received"
    THEN SelectSeq(messages, LAMBDA r : r.recipient_id = profileId)
    ELSE IF type = "sent"
    THEN SelectSeq(messages, LAMBDA r : r.sender_id = profileId)
    ELSE SelectSeq(messages, LAMBDA r : r.sender_id = profileId \/ r.recipient_id = profileId)

\* the database ids of the rows of a result list, in its order
RowIds(rows) == [i \in 1..Len(rows) |-> rows[i].id]

\* fetchMessages(walletAddress, type) is called; "" is a null wallet address
CallFetch(p) ==
    /\ call[p].pc = "idle"
    /\ \E w \in Wallets \cup {""}, t \in {"received", "sent", "all"} :
         LET l == [Idle EXCEPT !.op = "fetch", !.wallet = w, !.type = t,
                               !.had = Len(ProfilesByWallet(w))] IN
         IF w = ""
         THEN Become(p, [l EXCEPT !.pc = "done", !.ret = "value"])
         ELSE Become(p, [l EXCEPT !.pc = "f_profile"])
    /\ UNCHANGED <<profiles, messages, escrows, now, dbFaults>>

\* fetchMessages going on to create the profile whatever the lookup found
FetchLookupProfileMisses(p) ==
    LET l == [call[p] EXCEPT !.reads = @ + 1] IN
    /\ call[p].pc = "f_profile"
    /\ Become(p, [l EXCEPT !.pc = "f_insert"])
    /\ UNCHANGED <<profiles, messages, escrows, now, dbFaults>>

\* fetchMessages: look the profile up
FetchLookupProfile(p) ==
    LET l == [call[p] EXCEPT !.reads = @ + 1]
        rows == ProfilesByWallet(l.wallet) IN
    /\ call[p].pc = "f_profile"
    /\ \E ok \in DbOutcomes :
         /\ Fault(ok)
         /\ IF SingleError(rows, ok)
            THEN Become(p, [l EXCEPT !.pc = "f_insert"])
            ELSE Become(p, [l EXCEPT !.pc = "f_messages", !.rowId = rows[1].id])
    /\ UNCHANGED <<profiles, messages, escrows, now>>

\* fetchMessages returning the empty list without creating the profile
FetchInsertProfileSkipped(p) ==
    LET l == call[p] IN
    /\ l.pc = "f_insert"
    /\ Become(p, [l EXCEPT !.pc = "done", !.ret = "value"])
    /\ UNCHANGED <<profiles, messages, escrows, now, dbFaults>>

\* fetchMessages looking again before the insert and skipping it when a profile
\* with the wallet address exists by then
FetchInsertProfileRechecked(p) ==
    LET l == call[p] IN
    /\ l.pc = "f_insert"
    /\ Len(profiles) < MaxProfiles
    /\ IF ProfilesByWallet(l.wallet) = <<>>
       THEN /\ InsertProfile(l.wallet)
            /\ Become(p, [l EXCEPT !.pc = "done", !.ret = "value", !.writes = @ + 1])
       ELSE /\ Become(p, [l EXCEPT !.pc = "done", !.ret = "value"])
            /\ UNCHANGED profiles
    /\ UNCHANGED <<messages, escrows, now, dbFaults>>

\* fetchMessages: create the profile and return an empty list
FetchInsertProfile(p) ==
    LET l == call[p] IN
    /\ l.pc = "f_insert"
    /\ Len(profiles) < MaxProfiles
    /\ \E ok \in DbOutcomes :
         /\ Fault(ok)
         /\ IF ok
            THEN /\ InsertProfile(l.wallet)
                 /\ Become(p, [l EXCEPT !.pc = "done", !.ret = "value", !.writes = @ + 1])
            ELSE /\ Become(p, [l EXCEPT !.pc = "done", !.ret = "value"])
                 /\ UNCHANGED profiles
    /\ UNCHANGED <<messages, escrows, now>>

\* fetchMessages: query the messages, format and sort them, and return
FetchQuery(p) ==
    LET l == [call[p] EXCEPT !.reads = @ + 1] IN
    /\ call[p].pc = "f_messages"
    /\ \E ok \in DbOutcomes :
         /\ Fault(ok)
         /\ IF ok
            THEN Become(p, [l EXCEPT !.pc = "done", !.ret = "value",
                              !.list = RowIds(SortNewestFirst(MessagesQuery(l.rowId, l.type)))])
            ELSE Become(p, [l EXCEPT !.pc = "done", !.ret = "value"])
    /\ UNCHANGED <<profiles, messages, escrows, now>>

\* ------------------------------------------------- repair and inspection
\* the time a 'setTimeout(resolve, 10)' wait takes, in milliseconds
DelaySteps == {10}

\* the number of values of toString(36).slice(-3): the regenerated id repeats
\* after this many milliseconds
IdPeriod == 36 * 36 * 36

\* the time a wait can take beyond its 10 ms when the page is suspended or its
\* timers are throttled
SuspendSteps == {IdPeriod - 10}

\* the last clock reading of a behaviour
ClockEnd == StartTime + MaxTicks + 10 * MaxMessages + IdPeriod

\* the filter of fixMessageIds with the format tests left out
FixIdIncorrectDashOnly(messageId) == Includes(messageId, "-")

\* fixMessageIds: the filter for rows with an incorrect message_id
FixIdIncorrect(messageId) ==
    \/ messageId = <<>>
    \/ ~StartsWith(messageId, "m")
    \/ Len(messageId) < 4
    \/ Includes(messageId, "-")

\* fixMessageRetrieval: the filter for rows with an incorrect message_id
RetrievalIdIncorrect(messageId) ==
    \/ messageId = <<>>
    \/ ~StartsWith(messageId, "m")
    \/ Len(messageId) < 4

\* the repair update writing the status back to pending with the new id
RenamedAndReset(id, newMessageId) ==
    [i \in 1..Len(messages) |->
       IF messages[i].id = id
       THEN [messages[i] EXCEPT !.message_id = newMessageId, !.status = "pending"]
       ELSE messages[i]]

\* .from('messages').update({ message_id: newMessageId }).eq('id', id)
Renamed(id, newMessageId) ==
    [i \in 1..Len(messages) |->
       IF messages[i].id = id THEN [messages[i] EXCEPT !.message_id = newMessageId]
       ELSE messages[i]]

\* fixMessageIds() is called, from the console or by the page-load listener
CallFix(p) ==
    /\ call[p].pc = "idle"
    /\ Become(p, [Idle EXCEPT !.op = "fix", !.pc = "x_select"])
    /\ UNCHANGED <<profiles, messages, escrows, now, dbFaults>>

\* bookkeeping for the properties: the approvals that have been called and have
\* not yet submitted to the chain
InFlightApprovals ==
    Cardinality({q \in Procs : call[q].op = "approve" /\ call[q].pc = "a_submit"})

\* fixMessageIds: read all messages, filter, and compute the first new id
FixSelect(p) ==
    LET l == [call[p] EXCEPT !.reads = @ + 1, !.had = InFlightApprovals]
        incorrect == SelectSeq(messages, LAMBDA r : FixIdIncorrect(r.message_id)) IN
    /\ call[p].pc = "x_select"
    /\ \E ok \in DbOutcomes :
         /\ Fault(ok)
         /\ IF ~ok THEN Become(p, MirrorReturn(l, FALSE))
            ELSE IF incorrect = <<>> THEN Become(p, MirrorReturn(l, TRUE))
            ELSE Become(p, [l EXCEPT !.pc = "x_update", !.queue = RowIds(incorrect),
                                     !.validMessageId = RegenerateMessageId(now)])
    /\ UNCHANGED <<profiles, messages, escrows, now>>

\* fixMessageIds: the update of one row; a failure is counted and passed over
FixUpdate(p) ==
    LET l == call[p] IN
    /\ l.pc = "x_update"
    /\ \E ok \in DbOutcomes :
         /\ Fault(ok)
         /\ IF ok
            THEN /\ messages' = Renamed(Head(l.queue), l.validMessageId)
                 /\ Become(p, [l EXCEPT !.pc = "x_delay", !.writes = @ + 1])
            ELSE /\ Become(p, [l EXCEPT !.pc = "x_delay", !.fails = @ + 1])
                 /\ UNCHANGED messages
    /\ UNCHANGED <<profiles, escrows, now>>

\* fixMessageIds: the 10 ms wait, then the next new id or the return of true
FixDelay(p) ==
    LET l == call[p] IN
    /\ l.pc = "x_delay"
    /\ \E d \in DelaySteps :
         /\ now + d <= ClockEnd
         /\ now' = now + d
         /\ IF Tail(l.queue) = <<>>
            THEN Become(p, MirrorReturn([l EXCEPT !.queue = <<>>], TRUE))
            ELSE Become(p, [l EXCEPT !.pc = "x_update", !.queue = Tail(@),
                                     !.validMessageId = RegenerateMessageId(now + d)])
    /\ UNCHANGED <<profiles, messages, escrows, dbFaults>>

Next ==
    \/ Tick
    \/ \E p \in Procs :
         \/ Return(p)
         \/ CallCreate(p)
         \/ CreateCheckBalance(p)
         \/ CreateSubmit(p)
         \/ CallSave(p)
         \/ SaveLookupSender(p)
         \/ SaveInsertSender(p)
         \/ SaveLookupRecipient(p)
         \/ SaveInsertRecipient(p)
         \/ SaveInsertMessage(p)
         \/ CallApprove(p)
         \/ CallReject(p)
         \/ ApproveSubmit(p)
         \/ RejectSubmit(p)
         \/ CallUpdate(p)
         \/ UpdateCheck(p)
         \/ UpdateFallback(p)
         \/ UpdateByMessageId(p)
         \/ CallFetch(p)
         \/ FetchLookupProfile(p)
         \/ FetchInsertProfile(p)
         \/ FetchQuery(p)

Spec == Init /\ [][Next]_vars

SpecFaulty == InitFaulty /\ [][Next]_vars

\* fixMessageRetrieval(walletAddress) is called
CallRetrieval(p) ==
    /\ call[p].pc = "idle"
    /\ \E w \in Wallets :
         Become(p, [Idle EXCEPT !.op = "retrieval", !.pc = "g_profile", !.wallet = w])
    /\ UNCHANGED <<profiles, messages, escrows, now, dbFaults>>

\* fixMessageRetrieval: look the profile up
RetrievalLookupProfile(p) ==
    LET l == [call[p] EXCEPT !.reads = @ + 1]
        rows == ProfilesByWallet(l.wallet) IN
    /\ call[p].pc = "g_profile"
    /\ \E ok \in DbOutcomes :
         /\ Fault(ok)
         /\ IF SingleError(rows, ok)
            THEN Become(p, MirrorReturn(l, FALSE))
            ELSE Become(p, [l EXCEPT !.pc = "g_select", !.rowId = rows[1].id])
    /\ UNCHANGED <<profiles, messages, escrows, now>>

\* fixMessageRetrieval: read all messages, keep the user's, filter, and compute
\* the first new id
RetrievalSelect(p) ==
    LET l == [call[p] EXCEPT !.reads = @ + 1]
        userMessages == SelectSeq(messages, LAMBDA r : r.sender_id = l.rowId
                                                       \/ r.recipient_id = l.rowId)
        incorrect == SelectSeq(userMessages, LAMBDA r : RetrievalIdIncorrect(r.message_id)) IN
    /\ call[p].pc = "g_select"
    /\ \E ok \in DbOutcomes :
         /\ Fault(ok)
         /\ IF ~ok THEN Become(p, MirrorReturn(l, FALSE))
            ELSE IF incorrect = <<>> THEN Become(p, [l EXCEPT !.pc = "g_profiles"])
            ELSE Become(p, [l EXCEPT !.pc = "g_update", !.queue = RowIds(incorrect),
                                     !.validMessageId = RegenerateMessageId(now)])
    /\ UNCHANGED <<profiles, messages, escrows, now>>

\* fixMessageRetrieval: the update of one row; a failure is logged and passed over
RetrievalUpdate(p) ==
    LET l == call[p] IN
    /\ l.pc = "g_update"
    /\ \E ok \in DbOutcomes :
         /\ Fault(ok)
         /\ IF ok
            THEN /\ messages' = Renamed(Head(l.queue), l.validMessageId)
                 /\ Become(p, [l EXCEPT !.pc = "g_delay", !.writes = @ + 1])
            ELSE /\ Become(p, [l EXCEPT !.pc = "g_delay", !.fails = @ + 1])
                 /\ UNCHANGED messages
    /\ UNCHANGED <<profiles, escrows, now>>

\* fixMessageRetrieval: the 10 ms wait, then the next new id or the profile check
RetrievalDelay(p) ==
    LET l == call[p] IN
    /\ l.pc = "g_delay"
    /\ \E d \in DelaySteps :
         /\ now + d <= ClockEnd
         /\ now' = now + d
         /\ IF Tail(l.queue) = <<>>
            THEN Become(p, [l EXCEPT !.pc = "g_profiles", !.queue = <<>>])
            ELSE Become(p, [l EXCEPT !.pc = "g_update", !.queue = Tail(@),
                                     !.validMessageId = RegenerateMessageId(now + d)])
    /\ UNCHANGED <<profiles, messages, escrows, dbFaults>>

\* fixMessageRetrieval: read all profiles, report the missing ones, and return
RetrievalProfiles(p) ==
    LET l == [call[p] EXCEPT !.reads = @ + 1] IN
    /\ call[p].pc = "g_profiles"
    /\ \E ok \in DbOutcomes :
         /\ Fault(ok)
         /\ Become(p, MirrorReturn(l, ok))
    /\ UNCHANGED <<profiles, messages, escrows, now>>

\* the operations that only read the database and report what they find
InspectOps == {"fixDatabaseIssues", "checkMessagesDirectly", "debugDatabase",
               "debugMessageApproval", "debugMessageIssues", "getMessageStats"}

\* an inspection operation is called
CallInspect(p) ==
    /\ call[p].pc = "idle"
    /\ \E o \in InspectOps : Become(p, [Idle EXCEPT !.op = o, !.pc = "i_read"])
    /\ UNCHANGED <<profiles, messages, escrows, now, dbFaults>>

\* an inspection operation: its selects, and the return of its report
InspectRead(p) ==
    LET l == [call[p] EXCEPT !.reads = @ + 1] IN
    /\ call[p].pc = "i_read"
    /\ \E ok \in DbOutcomes :
         /\ Fault(ok)
         /\ Become(p, [l EXCEPT !.pc = "done", !.ret = "value"])
    /\ UNCHANGED <<profiles, messages, escrows, now>>

\* a row written before the identifier format was enforced, or saved with an
\* identifier that saveMessage accepts as it is
LegacyRow(k, messageId, status) ==
    [id |-> Uuid(k), sender_id |-> Uuid(1), recipient_id |-> Uuid(2),
     message_id |-> messageId, amount |-> 2, status |-> status,
     transaction_signature |-> NoSig, created_at |-> StartTime]

\* the messages tables the repair operations start from
LegacyTables ==
    {<<>>,
     <<LegacyRow(1, <<"x", "x", "1">>, "pending")>>,
     <<LegacyRow(1, <<"m", "a", "-", "b">>, "pending")>>,
     <<LegacyRow(1, <<>>, "pending"),
       LegacyRow(2, <<"6", "5", "5", "3", "-", "3", "e">>, "approved")>>}

\* a single caller, a database that holds the profiles of both wallets and
\* possibly rows with identifiers of older formats, and fails up to MaxFaults calls
InitRepair ==
    /\ profiles = <<[id |-> Uuid(1), wallet_address |-> "A"],
                    [id |-> Uuid(2), wallet_address |-> "B"]>>
    /\ messages \in LegacyTables
    /\ escrows = {}
    /\ now = StartTime
    /\ dbFaults = MaxFaults
    /\ call = [p \in Procs |-> IF p = "p1" THEN Idle ELSE Off]

\* the operations of messageService
NextRepair ==
    \/ Tick
    \/ \E p \in Procs :
         \/ Return(p)
         \/ CallSave(p)
         \/ SaveLookupSender(p)
         \/ SaveInsertSender(p)
         \/ SaveLookupRecipient(p)
         \/ SaveInsertRecipient(p)
         \/ SaveInsertMessage(p)
         \/ CallUpdate(p)
         \/ UpdateCheck(p)
         \/ UpdateFallback(p)
         \/ UpdateByMessageId(p)
         \/ CallFetch(p)
         \/ FetchLookupProfile(p)
         \/ FetchInsertProfile(p)
         \/ FetchQuery(p)
         \/ CallFix(p)
         \/ FixSelect(p)
         \/ FixUpdate(p)
         \/ FixDelay(p)
         \/ CallRetrieval(p)
         \/ RetrievalLookupProfile(p)
         \/ RetrievalSelect(p)
         \/ RetrievalUpdate(p)
         \/ RetrievalDelay(p)
         \/ RetrievalProfiles(p)
         \/ CallInspect(p)
         \/ InspectRead(p)

SpecRepair == InitRepair /\ [][NextRepair]_vars

\* two callers on one database and one chain: a wallet user who creates and
\* approves payments, and a page that loads (fixMessageIds runs) and fetches;
\* the database answers every call and is empty or holds one row of an older
\* format with the profiles it refers to
InitRace ==
    /\ \/ profiles = <<>> /\ messages = <<>>
       \/ /\ profiles = <<[id |-> Uuid(1), wallet_address |-> "A"],
                          [id |-> Uuid(2), wallet_address |-> "B"]>>
          /\ messages = <<LegacyRow(1, <<"x", "x", "1">>, "pending")>>
    /\ escrows = {}
    /\ now = StartTime
    /\ dbFaults = 0
    /\ call = [p \in Procs |-> Idle]

NextRace ==
    \/ Tick
    \/ \E p \in Procs : Return(p)
    \/ CallCreate("p1")
    \/ CreateCheckBalance("p1")
    \/ CreateSubmit("p1")
    \/ SaveLookupSender("p1")
    \/ SaveInsertSender("p1")
    \/ SaveLookupRecipient("p1")
    \/ SaveInsertRecipient("p1")
    \/ SaveInsertMessage("p1")
    \/ CallApprove("p1")
    \/ ApproveSubmit("p1")
    \/ CallFix("p2")
    \/ FixSelect("p2")
    \/ FixUpdate("p2")
    \/ FixDelay("p2")
    \/ CallFetch("p2")
    \/ FetchLookupProfile("p2")
    \/ FetchInsertProfile("p2")
    \/ FetchQuery("p2")

SpecRace == InitRace /\ [][NextRace]_vars

\* a wait of a repair run, between two of its iterations, takes long
Suspend ==
    /\ \E p \in Procs : call[p].pc \in {"x_delay", "g_delay"}
    /\ \E d \in SuspendSteps :
         /\ now + d <= ClockEnd
         /\ now' = now + d
    /\ UNCHANGED <<profiles, messages, escrows, dbFaults, call>>

\* a single caller running the repair operations in a page whose waits can take
\* long; the database answers every call
InitSlow ==
    /\ profiles = <<[id |-> Uuid(1), wallet_address |-> "A"],
                    [id |-> Uuid(2), wallet_address |-> "B"]>>
    /\ messages \in LegacyTables
    /\ escrows = {}
    /\ now = StartTime
    /\ dbFaults = 0
    /\ call = [p \in Procs |-> IF p = "p1" THEN Idle ELSE Off]

NextSlow ==
    \/ Tick
    \/ Suspend
    \/ \E p \in Procs :
         \/ Return(p)
         \/ CallFix(p)
         \/ FixSelect(p)
         \/ FixUpdate(p)
         \/ FixDelay(p)
         \/ CallRetrieval(p)
         \/ RetrievalLookupProfile(p)
         \/ RetrievalSelect(p)
         \/ RetrievalUpdate(p)
         \/ RetrievalDelay(p)
         \/ RetrievalProfiles(p)

SpecSlow == InitSlow /\ [][NextSlow]_vars

\* two callers on one database: one calls updateMessageStatus, the other saves
\* messages and runs fixMessageIds; the database answers every call and is
\* empty or holds the profiles of both wallets and one row saved earlier
InitUpdateRace ==
    /\ \/ profiles = <<>> /\ messages = <<>>
       \/ /\ profiles = <<[id |-> Uuid(1), wallet_address |-> "A"],
                          [id |-> Uuid(2), wallet_address |-> "B"]>>
          /\ messages \in {<<LegacyRow(1, <<"x", "x", "1">>, "pending")>>,
                           <<LegacyRow(1, <<"m", "a", "-", "b">>, "pending")>>}
    /\ escrows = {}
    /\ now = StartTime
    /\ dbFaults = 0
    /\ call = [p \in Procs |-> Idle]

NextUpdateRace ==
    \/ Tick
    \/ \E p \in Procs : Return(p)
    \/ CallUpdate("p1")
    \/ UpdateCheck("p1")
    \/ UpdateFallback("p1")
    \/ UpdateByMessageId("p1")
    \/ CallSave("p2")
    \/ SaveLookupSender("p2")
    \/ SaveInsertSender("p2")
    \/ SaveLookupRecipient("p2")
    \/ SaveInsertRecipient("p2")
    \/ SaveInsertMessage("p2")
    \/ CallFix("p2")
    \/ FixSelect("p2")
    \/ FixUpdate("p2")
    \/ FixDelay("p2")

SpecUpdateRace == InitUpdateRace /\ [][NextUpdateRace]_vars

\* the operations a wallet user reaches from the page: the three payment
\* operations of anchorClient with the saveMessage they call; updateMessageStatus
\* has no step here because no approve / reject gets past its validation
\* (C26_MirroredRowStaysPending states it)
NextPayments ==
    \/ Tick
    \/ \E p \in Procs :
         \/ Return(p)
         \/ CallCreate(p)
         \/ CreateCheckBalance(p)
         \/ CreateSubmit(p)
         \/ SaveLookupSender(p)
         \/ SaveInsertSender(p)
         \/ SaveLookupRecipient(p)
         \/ SaveInsertRecipient(p)
         \/ SaveInsertMessage(p)
         \/ CallApprove(p)
         \/ CallReject(p)
         \/ ApproveSubmit(p)
         \/ RejectSubmit(p)

\* a single caller of the payment operations, a database that answers every call
SpecPayments == Init /\ [][NextPayments]_vars

\* the database operations of messageService called directly
NextService ==
    \/ Tick
    \/ \E p \in Procs :
         \/ Return(p)
         \/ CallSave(p)
         \/ SaveLookupSender(p)
         \/ SaveInsertSender(p)
         \/ SaveLookupRecipient(p)
         \/ SaveInsertRecipient(p)
         \/ SaveInsertMessage(p)
         \/ CallUpdate(p)
         \/ UpdateCheck(p)
         \/ UpdateFallback(p)
         \/ UpdateByMessageId(p)
         \/ CallFetch(p)
         \/ FetchLookupProfile(p)
         \/ FetchInsertProfile(p)
         \/ FetchQuery(p)

\* a single caller of the database operations, a database that answers every call
SpecService == Init /\ [][NextService]_vars

\* saveMessage, called directly and by createMessagePayment
NextSave ==
    \/ Tick
    \/ \E p \in Procs :
         \/ Return(p)
         \/ CallCreate(p)
         \/ CreateCheckBalance(p)
         \/ CreateSubmit(p)
         \/ CallSave(p)
         \/ SaveLookupSender(p)
         \/ SaveInsertSender(p)
         \/ SaveLookupRecipient(p)
         \/ SaveInsertRecipient(p)
         \/ SaveInsertMessage(p)

\* a single caller of saveMessage, a database that fails up to MaxFaults calls
SpecSave == InitFaulty /\ [][NextSave]_vars

\* the two operations that look profiles up and create them
NextProfiles ==
    \/ Tick
    \/ \E p \in Procs :
         \/ Return(p)
         \/ CallSave(p)
         \/ SaveLookupSender(p)
         \/ SaveInsertSender(p)
         \/ SaveLookupRecipient(p)
         \/ SaveInsertRecipient(p)
         \/ SaveInsertMessage(p)
         \/ CallFetch(p)
         \/ FetchLookupProfile(p)
         \/ FetchInsertProfile(p)
         \/ FetchQuery(p)

\* a single caller of saveMessage and fetchMessages, a database that fails up
\* to MaxFaults calls
SpecProfiles == InitFaulty /\ [][NextProfiles]_vars

\* ------------------------------------------------------------- properties
SavePcs == {"s_sender", "s_senderInsert", "s_recipient", "s_recipientInsert", "s_insert"}
UpdatePcs == {"u_check", "u_byId", "u_updateById", "u_update"}

\* the row with database id id
RowOf(id) == messages[CHOOSE i \in 1..Len(messages) : messages[i].id = id]

\* the escrow status an operation leaves on chain
Settled(op) == IF op = "approve" THEN "Approved" ELSE "Rejected"

\* C1: an approve / reject called by the recipient R of a created payment, with
\* the sender's address S and the message_id stored in the payment's mirrored
\* row, derives the escrow address the creation derived.
C1_StoredIdDerivesCreationAddress ==
    \A p \in Procs : \A i \in 1..Len(messages) : \A e \in escrows :
        LET l == call[p] IN
        (/\ l.op \in {"approve", "reject"}
         /\ messages[i].transaction_signature = Signature("create", e.pda)
         /\ l.messageId = messages[i].message_id
         /\ PublicKey(l.peer) = e.pda[2]
         /\ PublicKey(l.wallet) = e.pda[3])
        => l.pda = e.pda

\* C2: an approve / reject that completed (the chain accepted the submission)
\* leaves every row that was pending when it was called, and that carries its
\* message id or mirrors the escrow it settled, with the requested status and
\* with the signature of its transaction.
C2_CompletedFlowUpdatesRow ==
    \A p \in Procs : \A i \in 1..Len(messages) :
        LET l == call[p] IN
        (/\ l.op \in {"approve", "reject"}
         /\ l.pc = "done"
         /\ l.ret = "value"
         /\ messages[i].id \in l.targets)
        => /\ messages[i].status = l.status
           /\ messages[i].transaction_signature = l.tx

\* C3: a createMessagePayment that read a balance below amount + 0.01 SOL (in
\* lamports) ends with the insufficient-funds error, having submitted nothing
\* to the chain and written nothing to the database.
C3_InsufficientFundsStopsCreate ==
    \A p \in Procs :
        LET l == call[p] IN
        (/\ l.op = "create"
         /\ l.bal >= 0
         /\ l.bal < l.amount * 1000000000 + 10000000)
        => /\ l.pc = "done"
           /\ l.ret = "throw"
           /\ l.err = "Insufficient funds. Please add more SOL"
           /\ l.submits = 0
           /\ l.writes = 0
           /\ l.tx = NoSig
           /\ l.mirror = "none"

\* C3 witness: a create that stopped on a balance that covers the amount but
\* not the fee buffer
C3_Witness ==
    \E p \in Procs :
        /\ call[p].op = "create"
        /\ call[p].pc = "done"
        /\ call[p].bal >= call[p].amount * 1000000000
        /\ call[p].bal < call[p].amount * 1000000000 + 10000000

\* C4: a fetchMessages for a wallet address that had no profile returns the
\* empty list and has inserted exactly one profile, which carries that address.
C4_FetchCreatesOneProfile ==
    \A p \in Procs :
        LET l == call[p] IN
        (/\ l.op = "fetch"
         /\ l.pc = "done"
         /\ l.wallet # ""
         /\ l.had = 0)
        => /\ l.list = <<>>
           /\ l.writes = 1
           /\ Len(ProfilesByWallet(l.wallet)) = 1
           /\ Len(profiles) >= 1
           /\ profiles[Len(profiles)].wallet_address = l.wallet

\* C4 witness: such a fetch, of a type other than the default, has returned
C4_Witness ==
    \E p \in Procs :
        /\ call[p].op = "fetch"
        /\ call[p].pc = "done"
        /\ call[p].type = "sent"
        /\ call[p].had = 0
        /\ call[p].wallet = "B"
        /\ Len(profiles) = 1

\* C5: the row a saveMessage inserted has a message_id that starts with 'm' and
\* has at least 4 characters; it is the argument when the argument is
\* well-formed, and the regenerated 'm' + 3 characters otherwise.
C5_InsertedIdWellFormed ==
    \A p \in Procs :
        LET l == call[p] IN
        (/\ l.op \in {"save", "create"}
         /\ l.pc = "done"
         /\ l.mirror = "true")
        => LET id == RowOf(l.rowId).message_id
               wellFormed == Len(l.messageId) >= 4 /\ l.messageId[1] = "m" IN
           /\ Len(id) >= 4
           /\ id[1] = "m"
           /\ wellFormed => id = l.messageId
           /\ ~wellFormed => id # l.messageId /\ Len(id) = 4

\* C5 witness: a saveMessage given "xx1" has inserted its row beside a row that
\* kept a well-formed argument
C5_Witness ==
    \E p \in Procs :
        /\ call[p].op = "save"
        /\ call[p].pc = "done"
        /\ call[p].mirror = "true"
        /\ call[p].messageId = <<"x", "x", "1">>
        /\ \E i \in 1..Len(messages) : messages[i].message_id = <<"m", "a", "b", "c">>

\* C6: an approve / reject called by the recipient of an escrow, with the
\* escrow's sender and a message id whose first 4 characters are the escrow's
\* seed, derives the address the creation derived.
C6_SamePairingSameAddress ==
    \A p \in Procs : \A e \in escrows :
        LET l == call[p] IN
        (/\ l.op \in {"approve", "reject"}
         /\ PublicKey(l.peer) = e.pda[2]
         /\ PublicKey(l.wallet) = e.pda[3]
         /\ Len(l.messageId) >= 4
         /\ SubSeq(l.messageId, 1, 4) = e.pda[4])
        => l.pda = e.pda

\* C6 witness: the recipient approves with the sender's address and the seed
C6_Witness ==
    \E p \in Procs : \E e \in escrows :
        /\ call[p].op = "approve"
        /\ call[p].pc = "a_submit"
        /\ call[p].wallet = "B"
        /\ call[p].peer = "A"
        /\ call[p].messageId = e.pda[4]
        /\ e.status = "Pending"

\* C7: an updateMessageStatus given a malformed id (no leading 'm', or fewer
\* than 4 characters) returns false and makes no database call.
C7_MalformedUpdateRejected ==
    \A p \in Procs :
        LET l == call[p] IN
        (/\ l.op \in {"update", "approve", "reject"}
         /\ l.pc # "idle"
         /\ \/ Len(l.messageId) < 4
            \/ l.messageId[1] # "m")
        => /\ l.pc \notin UpdatePcs
           /\ l.reads = 0
           /\ l.writes = 0
           /\ l.mirror \in {"none", "false"}
           /\ l.op = "update" => l.pc = "done" /\ l.mirror = "false"

\* C7 witness: a direct updateMessageStatus with a 4-character id that lacks
\* the 'm' has returned false
C7_Witness ==
    \E p \in Procs :
        /\ call[p].op = "update"
        /\ call[p].pc = "done"
        /\ call[p].mirror = "false"
        /\ Len(call[p].messageId) = 4
        /\ call[p].messageId[1] # "m"

\* C8: when the mirror write inside createMessagePayment, approveMessagePayment
\* or rejectMessagePayment fails, the operation ends in an error.
C8_MirrorFailureSurfaces ==
    \A p \in Procs :
        LET l == call[p] IN
        (/\ l.op \in {"create", "approve", "reject"}
         /\ l.pc = "done"
         /\ l.mirror = "false")
        => l.ret = "throw"

\* C9: a create / approve / reject submits at most one instruction; it reaches
\* saveMessage / updateMessageStatus only with the signature of its accepted
\* submission; an operation that ended in an error made no database call.
C9_OneSubmissionThenMirror ==
    \A p \in Procs :
        LET l == call[p] IN
        l.op \in {"create", "approve", "reject"}
        => /\ l.submits <= 1
           /\ (l.pc \in SavePcs \cup UpdatePcs \/ l.mirror # "none"
                 \/ l.reads + l.writes > 0)
                => /\ l.submits = 1
                   /\ l.tx # NoSig
                   /\ \E e \in escrows : e.pda = l.pda
           /\ l.ret = "throw"
                => /\ l.reads = 0
                   /\ l.writes = 0
                   /\ l.mirror = "none"
                   /\ l.tx = NoSig

\* C9 witness: an approve whose one submission failed has ended in an error
C9_Witness ==
    \E p \in Procs :
        /\ call[p].op = "approve"
        /\ call[p].pc = "done"
        /\ call[p].ret = "throw"
        /\ call[p].submits = 1

\* C10: an approve / reject reaches the database update only if the escrow was
\* Pending when it submitted and its own transaction settled it; when the
\* update then fails, the escrow is settled and the rows the call was about are
\* still pending; a call that finds the escrow settled ends in an error without
\* a database call.
C10_SettledEscrowPendingRow ==
    \A p \in Procs :
        LET l == call[p] IN
        l.op \in {"approve", "reject"}
        => /\ (l.pc \in UpdatePcs \/ l.mirror # "none")
                => /\ l.was = "Pending"
                   /\ EscrowStatus(l.pda) = Settled(l.op)
           /\ (l.pc = "done" /\ l.mirror = "false")
                => \A i \in 1..Len(messages) :
                      messages[i].id \in l.targets => messages[i].status = "pending"
           /\ l.was \in {"Approved", "Rejected"}
                => /\ l.pc = "done"
                   /\ l.ret = "throw"
                   /\ l.reads + l.writes = 0

\* C10 witness: the escrow of a payment is settled, its mirrored row is still
\* pending, and a repeated approve has been refused by the chain
C10_Witness ==
    \E p \in Procs : \E i \in 1..Len(messages) :
        /\ call[p].op = "approve"
        /\ call[p].pc = "done"
        /\ call[p].err = "InvalidEscrowStatus"
        /\ call[p].was \in {"Approved", "Rejected"}
        /\ messages[i].transaction_signature = Signature("create", call[p].pda)
        /\ messages[i].status = "pending"

\* C13: updateMessageStatus called directly with the well-formed message_id of
\* exactly one row returns true and leaves that row with the requested status,
\* whatever its status was: an approved or rejected row is overwritten too.
C13_UpdateOverwritesSettledRow ==
    \A p \in Procs :
        LET l == call[p] IN
        (/\ l.op = "update"
         /\ l.pc = "done"
         /\ l.had = 1
         /\ ~UpdateIdInvalid(l.messageId))
        => /\ l.mirror = "true"
           /\ l.was \in {"pending", "approved", "rejected"}
           /\ \A i \in 1..Len(messages) :
                 messages[i].message_id = l.messageId => messages[i].status = l.status

\* C13 witness: a direct update has put an approved row back to pending
C13_Witness ==
    \E p \in Procs :
        /\ call[p].op = "update"
        /\ call[p].pc = "done"
        /\ call[p].mirror = "true"
        /\ call[p].was = "approved"
        /\ call[p].status = "pending"
        /\ \E i \in 1..Len(messages) :
              messages[i].message_id = call[p].messageId /\ messages[i].status = "pending"

\* C17: with the database answering, a saveMessage that found or created both
\* profiles inserts its row and returns true without reading the messages
\* table, whether or not a row already carries its message_id.
C17_SaveInsertsWithoutUniquenessCheck ==
    \A p \in Procs :
        LET l == call[p] IN
        (/\ l.op \in {"save", "create"}
         /\ l.pc = "done"
         /\ l.mirror # "none")
        => /\ l.mirror = "true"
           /\ l.reads = 2
           /\ \E i \in 1..Len(messages) :
                 messages[i].id = l.rowId /\ messages[i].message_id = l.validMessageId

\* C17 witness: two saveMessage calls given malformed ids in the same
\* millisecond have left two rows with the same regenerated message_id
C17_Witness ==
    \E p \in Procs : \E i, j \in 1..Len(messages) :
        /\ call[p].op = "save"
        /\ call[p].pc = "done"
        /\ call[p].mirror = "true"
        /\ SaveIdInvalid(call[p].messageId)
        /\ i # j
        /\ messages[j].id = call[p].rowId
        /\ messages[i].message_id = messages[j].message_id

\* C20: updateMessageStatus called with the database id of an existing row
\* returns true and leaves that row with the requested status.
C20_UpdateByDatabaseId ==
    \A p \in Procs : \A i \in 1..Len(messages) :
        LET l == call[p] IN
        (/\ l.op = "update"
         /\ l.pc = "done"
         /\ Includes(l.messageId, "-")
         /\ messages[i].id = l.messageId)
        => /\ l.mirror = "true"
           /\ messages[i].status = l.status

\* the caller p took the step
Stepped(p) == call'[p] # call[p]

\* row i is the same before and after the step, apart from its message_id
SameButMessageId(i) == messages'[i] = [messages[i] EXCEPT !.message_id = messages'[i].message_id]

\* C12: in every step of the messageService operations: rows are never removed;
\* a new row is pending and is inserted by saveMessage; a row's status changes
\* only in an update step of updateMessageStatus; a step of fixMessageIds or
\* fixMessageRetrieval changes nothing but message_id values; a step of an
\* inspection operation changes no table; no step changes the chain.
C12_StatusWrittenByUpdateOnly ==
    [][/\ Len(messages') >= Len(messages)
       /\ Len(messages') > Len(messages)
            => /\ messages'[Len(messages')].status = "pending"
               /\ \E p \in Procs : call[p].pc = "s_insert" /\ Stepped(p)
       /\ \A i \in 1..Len(messages) :
             messages'[i].status # messages[i].status
               => \E p \in Procs : call[p].pc \in {"u_update", "u_updateById"} /\ Stepped(p)
       /\ \A p \in Procs :
             (call[p].op \in {"fix", "retrieval"} /\ Stepped(p))
               => /\ profiles' = profiles
                  /\ Len(messages') = Len(messages)
                  /\ \A i \in 1..Len(messages) : SameButMessageId(i)
       /\ \A p \in Procs :
             (call[p].op \in InspectOps /\ Stepped(p))
               => profiles' = profiles /\ messages' = messages
       /\ escrows' = escrows]_vars

\* C12 witness: fixMessageIds has renamed both rows and the approved one is
\* still approved
C12_Witness ==
    \E p \in Procs : \E i \in 1..Len(messages) :
        /\ call[p].op = "fix"
        /\ call[p].pc = "done"
        /\ call[p].writes = 2
        /\ messages[i].status = "approved"
        /\ messages[i].message_id[1] = "m"

C16_MessagesReferToProfiles ==
    \A i \in 1..Len(messages) :
        /\ \E j \in 1..Len(profiles) : profiles[j].id = messages[i].sender_id
        /\ \E j \in 1..Len(profiles) : profiles[j].id = messages[i].recipient_id

\* C16 witness: a saveMessage has inserted its row after creating a profile,
\* and a repair has renamed a row since the start
C16_Witness ==
    \E p \in Procs : \E i \in 1..Len(messages) :
        /\ call[p].op = "save"
        /\ call[p].pc = "done"
        /\ call[p].mirror = "true"
        /\ call[p].writes = 2
        /\ messages[i].id = Uuid(1)
        /\ messages[i].message_id # <<"x", "x", "1">>
        /\ Len(messages) = 2

\* C18: after a fixMessageIds run that read the rows and in which every update
\* succeeded, every row's message_id starts with 'm' and has at least 4
\* characters.
C18_FixLeavesNoMalformedId ==
    \A p \in Procs :
        LET l == call[p] IN
        (/\ l.op = "fix"
         /\ l.pc = "done"
         /\ l.mirror = "true"
         /\ l.fails = 0)
        => \A i \in 1..Len(messages) :
              /\ Len(messages[i].message_id) >= 4
              /\ messages[i].message_id[1] = "m"

\* C18 witness: a run has renamed two rows, none of its updates failed
C18_Witness ==
    \E p \in Procs :
        /\ call[p].op = "fix"
        /\ call[p].pc = "done"
        /\ call[p].mirror = "true"
        /\ call[p].fails = 0
        /\ call[p].writes = 2
        /\ call[p].reads = 1

\* C19: after a fixMessageIds run that read the rows and in which every update
\* succeeded, no two rows share a message_id.
C19_FixLeavesNoDuplicateId ==
    \A p \in Procs :
        LET l == call[p] IN
        (/\ l.op = "fix"
         /\ l.pc = "done"
         /\ l.mirror = "true"
         /\ l.fails = 0)
        => \A i, j \in 1..Len(messages) :
              messages[i].message_id = messages[j].message_id => i = j

C15_InsertAfterStaleLookup ==
    [][\A p \in Procs :
         (call[p].pc \in {"f_insert", "s_senderInsert", "s_recipientInsert"} /\ Stepped(p))
           => /\ Len(profiles') = Len(profiles) + 1
              /\ profiles'[Len(profiles')].wallet_address =
                    IF call[p].pc = "s_recipientInsert" THEN call[p].peer ELSE call[p].wallet]_vars

\* C15 witness: the saveMessage of a payment and a fetchMessages, interleaved,
\* have each inserted a profile for the same wallet address
C15_Witness ==
    \E i, j \in 1..Len(profiles) :
        /\ i # j
        /\ profiles[i].wallet_address = profiles[j].wallet_address
        /\ call["p1"].op = "create"
        /\ call["p1"].writes >= 1
        /\ call["p2"].op = "fetch"
        /\ call["p2"].pc = "done"
        /\ call["p2"].had = 0
        /\ call["p2"].writes = 1
        /\ call["p2"].wallet = profiles[i].wallet_address

\* C21: the escrow address of a createMessagePayment is derived from the sender,
\* the recipient and the first 4 characters of its message id, which are the
\* leading 4 hexadecimal digits of a clock reading; it equals the address of
\* every escrow of the same sender and recipient whose seed is those 4 digits,
\* whatever the random token.
C21_SeedIsTimestampPrefix ==
    \A p \in Procs :
        LET l == call[p] IN
        (l.op = "create" /\ l.messageId # <<>>)
        => /\ l.pda = <<"message-escrow", <<"pk", l.wallet>>, <<"pk", l.peer>>,
                         SubSeq(l.messageId, 1, 4)>>
           /\ \E t \in StartTime..now :
                 l.pda[4] = SubSeq(NumberToString(t, 16), 1, 4)
           /\ \A e \in escrows :
                 (/\ e.pda[2] = <<"pk", l.wallet>>
                  /\ e.pda[3] = <<"pk", l.peer>>
                  /\ e.pda[4] = SubSeq(l.messageId, 1, 4))
                 => l.pda = e.pda

\* C21 witness: a second payment of the same sender to the same recipient,
\* created a millisecond after the first with another random token, has been
\* refused on the address of the first payment's escrow
C21_Witness ==
    \E p \in Procs : \E e \in escrows : \E i \in 1..Len(messages) :
        /\ call[p].op = "create"
        /\ call[p].pc = "done"
        /\ call[p].err = "already in use"
        /\ call[p].messageId = NumberToString(StartTime + 1, 16) \o <<"-", "c", "4">>
        /\ call[p].pda = e.pda
        /\ messages[i].transaction_signature = <<"create", e.pda>>
        /\ messages[i].created_at = StartTime

\* C22: a step of fixMessageIds leaves unchanged the message_id of every row
\* whose message_id starts with 'm' and has at least 4 characters.
C22_FixKeepsWellFormedId ==
    [][\A p \in Procs :
         (call[p].op = "fix" /\ Stepped(p))
           => \A i \in 1..Len(messages) :
                 (Len(messages[i].message_id) >= 4 /\ messages[i].message_id[1] = "m")
                   => messages'[i].message_id = messages[i].message_id]_vars

\* C23: a run of fixMessageIds or fixMessageRetrieval that renamed both rows of
\* a table gave them different message_ids.
C23_RunIdsDistinct ==
    \A p \in Procs :
        LET l == call[p] IN
        (/\ l.op \in {"fix", "retrieval"}
         /\ l.writes = 2
         /\ Len(messages) = 2)
        => messages[1].message_id # messages[2].message_id

\* C24: a createMessagePayment that failed reports its cause in the cause's
\* class: a failure before any submission carries the insufficient-funds
\* message only when the balance was read and is below amount + 0.01 SOL; the
\* rejected-by-the-wallet message comes from a submission only; a failed
\* balance query is reported with neither of the two messages.
C24_CreateErrorNamesItsCause ==
    \A p \in Procs :
        LET l == call[p] IN
        (l.op = "create" /\ l.pc = "done" /\ l.ret = "throw")
        => /\ (l.err = "Insufficient funds. Please add more SOL" /\ l.submits = 0)
                => /\ l.bal >= 0
                   /\ l.bal < l.amount * 1000000000 + 10000000
           /\ l.err = "Transaction was rejected by the wallet." => l.submits = 1
           /\ l.bal < 0
                => l.err \notin {"Insufficient funds. Please add more SOL",
                                 "Transaction was rejected by the wallet."}

InsertsProfileFor(w) ==
    /\ Len(profiles') = Len(profiles) + 1
    /\ SubSeq(profiles', 1, Len(profiles)) = profiles
    /\ profiles'[Len(profiles')].wallet_address = w
    /\ \A j \in 1..Len(profiles) : profiles[j].id # profiles'[Len(profiles')].id

C28_TrueUpdateChangesOneRow ==
    [][\A p \in Procs :
         (/\ call[p].pc \in {"u_update", "u_updateById"}
          /\ Stepped(p)
          /\ call'[p].mirror = "true")
         => LET l == call[p]
                hit == {i \in 1..Len(messages) :
                          IF l.pc = "u_update" THEN messages[i].message_id = l.messageId
                          ELSE messages[i].id = l.rowId} IN
            /\ Cardinality(hit) = 1
            /\ \A i \in hit : messages'[i].status = l.status]_vars

\* C29: an updateMessageStatus called with an id that starts with 'm', has at
\* least 4 characters and no '-', while no row or more than one row carried it,
\* returns false after its existence check and writes nothing.
C29_NoSingleRowNoUpdate ==
    \A p \in Procs :
        LET l == call[p] IN
        (/\ l.op = "update"
         /\ l.pc = "done"
         /\ l.had # 1
         /\ Len(l.messageId) >= 4
         /\ l.messageId[1] = "m"
         /\ \A k \in 1..Len(l.messageId) : l.messageId[k] # "-")
        => /\ l.mirror = "false"
           /\ l.reads = 1
           /\ l.writes = 0
           /\ l.was = "none"

\* C29 witness: two pending rows carry the message_id, and an update to
\* rejected has returned false and left both pending
C29_Witness ==
    \E p \in Procs :
        /\ call[p].op = "update"
        /\ call[p].pc = "done"
        /\ call[p].had = 2
        /\ call[p].status = "rejected"
        /\ call[p].mirror = "false"
        /\ Len(messages) = 2
        /\ messages[1].message_id = call[p].messageId
        /\ messages[2].message_id = call[p].messageId
        /\ messages[1].status = "pending"
        /\ messages[2].status = "pending"

\* C30: the step in which a saveMessage returns false changes neither table, so
\* the call has inserted no message row and the profiles it created stay; a
\* step of saveMessage that inserts a message row returns true; no step of
\* saveMessage removes or changes a profile.
C30_FailedSaveKeepsProfiles ==
    [][\A p \in Procs :
         (call[p].pc \in SavePcs /\ Stepped(p))
         => /\ call'[p].mirror = "false"
                 => /\ messages' = messages
                    /\ profiles' = profiles
                    /\ call'[p].rowId = <<>>
                    /\ call'[p].writes = call[p].writes
            /\ Len(messages') > Len(messages) => call'[p].mirror = "true"
            /\ Len(profiles') >= Len(profiles)
            /\ SubSeq(profiles', 1, Len(profiles)) = profiles]_vars

\* C30 witness: a saveMessage created the sender profile, failed to create the
\* recipient profile and returned false; the sender profile is the only row of
\* the database
C30_Witness ==
    \E p \in Procs :
        /\ call[p].op = "save"
        /\ call[p].pc = "done"
        /\ call[p].mirror = "false"
        /\ call[p].writes = 1
        /\ call[p].reads = 2
        /\ messages = <<>>
        /\ Len(profiles) = 1
        /\ profiles[1].id = call[p].senderId
        /\ profiles[1].wallet_address = call[p].wallet

====
